---------------------------- MODULE Spec2Model ----------------------------
(***************************************************************************)
(* Model of console/aleo/src/program/data.rs: the Data<N, D> unit          *)
(* (Plaintext / Ciphertext with a Mode), its field codec (encode /         *)
(* decode), its validity predicate, its data ID and its encrypt / decrypt  *)
(* transforms.                                                             *)
(*                                                                         *)
(* The network N is scaled down: the base field is the integers modulo     *)
(* Modulus with Capacity data bits per element, the curve group is the     *)
(* cyclic group of order GroupOrder written additively, and the Poseidon   *)
(* sponge is a deterministic arithmetic function of its inputs.  The data  *)
(* type D is a vector of bytes of ByteBits bits each.                      *)
(***************************************************************************)
EXTENDS Integers, Sequences, FiniteSets, TLC

\* ------------------------------------------------------------------------
\* Network parameters (scaled down) and bounds on the explored inputs.
\* ------------------------------------------------------------------------

\* N::Field::size_in_data_bits(): data bits carried by one field element.
Capacity == 2

\* The modulus of N::Field; 2^Capacity < Modulus < 2^(Capacity + 1).
Modulus == 7

\* Number of bits of the representation returned by Field::to_bits_le().
ReprBits == Capacity + 1

\* Width of one element of the data type D (a byte of the byte vector).
ByteBits == 1

\* Order of the (cyclic) curve group; scalars are taken modulo it.
GroupOrder == 3

\* N::encryption_domain(): the domain separator fed to the sponge.
EncryptionDomain == 5

\* Longest data vector (in bytes) a unit is constructed with.
MaxLen == 4

\* Longest field sequence a Ciphertext unit is constructed with.
MaxFields == 2

\* ------------------------------------------------------------------------
\* Generic helpers.
\* ------------------------------------------------------------------------

RECURSIVE Pow2(_)
Pow2(n) == IF n = 0 THEN 1 ELSE 2 * Pow2(n - 1)

Min(a, b) == IF a < b THEN a ELSE b

SeqsUpTo(S, n) == UNION {[1..k -> S] : k \in 0..n}

Some(v) == [ok |-> TRUE, val |-> v]

None == [ok |-> FALSE, val |-> <<>>]

Ok(v) == [ok |-> TRUE, val |-> v]

Err(msg) == [ok |-> FALSE, val |-> msg]

\* ------------------------------------------------------------------------
\* Types.
\* ------------------------------------------------------------------------

Mode == {"Constant", "Public", "Private"}

Field == 0..(Modulus - 1)

Scalar == 0..(GroupOrder - 1)

Affine == 0..(GroupOrder - 1)

Byte == 0..(Pow2(ByteBits) - 1)

Plaintext(data, mode) == [variant |-> "Plaintext", payload |-> data, mode |-> mode]

Ciphertext(fields, mode) == [variant |-> "Ciphertext", payload |-> fields, mode |-> mode]

\* ------------------------------------------------------------------------
\* Bit conversions of the data type and of the field.
\* ------------------------------------------------------------------------

\* bit k (0-based, little-endian) of the natural number n
BitOf(n, k) == ((n \div Pow2(k)) % 2) = 1

\* D::to_bits_le for a byte vector: the bytes in order, each little-endian.
ToBitsLE(data) ==
    [i \in 1..(Len(data) * ByteBits) |->
        BitOf(data[((i - 1) \div ByteBits) + 1], (i - 1) % ByteBits)]

\* little-endian bits to the integer they denote
RECURSIVE BigIntegerFromBitsLE(_)
BigIntegerFromBitsLE(bits) ==
    IF bits = <<>> THEN 0
    ELSE (IF Head(bits) THEN 1 ELSE 0) + 2 * BigIntegerFromBitsLE(Tail(bits))

\* D::from_bits_le for a byte vector: chunks of ByteBits bits, the last
\* chunk may be shorter.
FromBitsLE(bits) ==
    [j \in 1..((Len(bits) + ByteBits - 1) \div ByteBits) |->
        BigIntegerFromBitsLE(
            SubSeq(bits, (j - 1) * ByteBits + 1, Min(j * ByteBits, Len(bits))))]

\* Field::from_repr: None when the integer is not below the modulus.
FromRepr(n) == IF n < Modulus THEN Some(n) ELSE None

\* Field::to_bits_le: the ReprBits little-endian bits of the element.
FieldToBitsLE(p) == [k \in 1..ReprBits |-> BitOf(p, k - 1)]

\* slice::chunks(size): consecutive chunks, the last one may be shorter.
Chunks(bits, size) ==
    [j \in 1..((Len(bits) + size - 1) \div size) |->
        SubSeq(bits, (j - 1) * size + 1, Min(j * size, Len(bits)))]

\* ------------------------------------------------------------------------
\* Field codec.
\* ------------------------------------------------------------------------

\* encode without the terminus bit
encode_no_terminus(data) ==
    LET chunks == Chunks(ToBitsLE(data), Capacity)
    IN  Ok([j \in 1..Len(chunks) |-> BigIntegerFromBitsLE(chunks[j])])

\* Data::encode
encode(data) ==
    LET bits   == Append(ToBitsLE(data), TRUE)
        chunks == Chunks(bits, Capacity)
        fields == [j \in 1..Len(chunks) |-> FromRepr(BigIntegerFromBitsLE(chunks[j]))]
    IN  IF \A j \in 1..Len(fields) : fields[j].ok
        THEN Ok([j \in 1..Len(fields) |-> fields[j].val])
        ELSE Err("Failed to encode data bits into a base field")

\* the flat_map of decode: the first Capacity bits of every element, in order
RECURSIVE CapacityBits(_)
CapacityBits(plaintext) ==
    IF plaintext = <<>> THEN <<>>
    ELSE SubSeq(FieldToBitsLE(Head(plaintext)), 1, Capacity)
         \o CapacityBits(Tail(plaintext))

\* the loop of decode over the reversed iterator: n bits are still unconsumed;
\* returns whether a true bit was met and how many bits remain in front of it
RECURSIVE ScanTerminus(_, _)
ScanTerminus(bits, n) ==
    IF n = 0 THEN [found |-> FALSE, rest |-> 0]
    ELSE IF bits[n] THEN [found |-> TRUE, rest |-> n - 1]
    ELSE ScanTerminus(bits, n - 1)

\* the bits decode hands to D::from_bits_le
DecodedBits(plaintext) ==
    LET bits == CapacityBits(plaintext)
    IN  SubSeq(bits, 1, ScanTerminus(bits, Len(bits)).rest)

\* Data::decode
decode(plaintext) == FromBitsLE(DecodedBits(plaintext))


\* ------------------------------------------------------------------------
\* Curve, field and sponge capabilities used by the unit.
\* ------------------------------------------------------------------------

\* the generator of the group (N::g_scalar_multiply multiplies it)
Generator == 1 % GroupOrder

\* point * scalar
ScalarMul(point, scalar) == (point * scalar) % GroupOrder

\* to_affine().to_x_coordinate(): the field element a point is read as
ToXCoordinate(point) == (point * point + 2) % Modulus

\* field addition and subtraction
FieldAdd(a, b) == (a + b) % Modulus

FieldSub(a, b) == (a - b + Modulus) % Modulus

\* N::hash_many_psd8(input, num_outputs): num_outputs field elements that
\* are a deterministic function of the input
HashManyPsd8(input, n) ==
    [i \in 1..n |-> (input[1] + (input[2] + 1) * i * i + i) % Modulus]

\* N::hash_psd8(input): one field element digesting the whole sequence
RECURSIVE HashPsd8(_)
HashPsd8(input) ==
    IF input = <<>> THEN 1
    ELSE (3 * HashPsd8(SubSeq(input, 1, Len(input) - 1))
          + input[Len(input)] + Len(input)) % Modulus

\* ------------------------------------------------------------------------
\* The data unit.
\* ------------------------------------------------------------------------

\* Data::mode
mode(self) == self.mode

\* is_valid accepting a Ciphertext tagged Public as well
is_valid_public_ciphertext(self) ==
    IF self.variant = "Plaintext"
    THEN self.mode = "Constant" \/ self.mode = "Public"
    ELSE self.mode = "Private" \/ self.mode = "Public"

\* Data::is_valid
is_valid(self) ==
    IF self.variant = "Plaintext"
    THEN self.mode = "Constant" \/ self.mode = "Public"
    ELSE self.mode = "Private"

\* to_data_id without the validity check
to_data_id_unchecked(self) ==
    IF self.variant = "Plaintext"
    THEN LET fields == encode(self.payload)
         IN  IF fields.ok THEN Ok(HashPsd8(fields.val)) ELSE fields
    ELSE Ok(HashPsd8(self.payload))

\* Data::to_data_id
to_data_id(self) ==
    IF is_valid(self)
    THEN IF self.variant = "Plaintext"
         THEN LET fields == encode(self.payload)
              IN  IF fields.ok THEN Ok(HashPsd8(fields.val)) ELSE fields
         ELSE Ok(HashPsd8(self.payload))
    ELSE Err("Failed to compute the data ID as the data must be encrypted first")

\* the masked field elements of encrypt for a given data view key
Masked(plaintext, data_view_key) ==
    LET randomizers == HashManyPsd8(<<EncryptionDomain, data_view_key>>, Len(plaintext))
    IN  [j \in 1..Len(plaintext) |-> FieldAdd(plaintext[j], randomizers[j])]

\* encrypt masking a Plaintext of any mode
encrypt_any_mode(self, address, randomizer) ==
    IF self.variant = "Plaintext"
    THEN Ok(Ciphertext(Masked(encode(self.payload).val,
                              ToXCoordinate(ScalarMul(address, randomizer))),
                       "Private"))
    ELSE Ok(self)

\* the running sums of a field sequence
RECURSIVE RunningSum(_)
RunningSum(fields) ==
    IF fields = <<>> THEN <<>>
    ELSE LET front == RunningSum(SubSeq(fields, 1, Len(fields) - 1))
         IN  Append(front, FieldAdd(fields[Len(fields)],
                                    IF front = <<>> THEN 0 ELSE front[Len(front)]))

\* encrypt chaining every field element into the ones after it
encrypt_chained(self, address, randomizer) ==
    IF self.variant = "Plaintext" /\ self.mode = "Private"
    THEN Ok(Ciphertext(Masked(RunningSum(encode(self.payload).val),
                              ToXCoordinate(ScalarMul(address, randomizer))),
                       "Private"))
    ELSE Ok(self)

\* Data::encrypt
encrypt(self, address, randomizer) ==
    IF self.variant = "Plaintext" /\ self.mode = "Private"
    THEN LET plaintext == encode(self.payload)
         IN  IF ~plaintext.ok THEN plaintext
             ELSE LET data_view_key == ToXCoordinate(ScalarMul(address, randomizer))
                      randomizers   == HashManyPsd8(<<EncryptionDomain, data_view_key>>,
                                                    Len(plaintext.val))
                      ciphertext    == [j \in 1..Len(plaintext.val) |->
                                            FieldAdd(plaintext.val[j], randomizers[j])]
                  IN  Ok(Ciphertext(ciphertext, "Private"))
    ELSE Ok(self)

\* the pad added a second time instead of subtracted
Unmask_add(ciphertext, view_key, nonce) ==
    LET data_view_key == ToXCoordinate(ScalarMul(nonce, view_key))
        randomizers   == HashManyPsd8(<<EncryptionDomain, data_view_key>>, Len(ciphertext))
    IN  [j \in 1..Len(ciphertext) |-> FieldAdd(ciphertext[j], randomizers[j])]

\* the plaintext field elements decrypt recovers from a ciphertext
Unmask(ciphertext, view_key, nonce) ==
    LET data_view_key == ToXCoordinate(ScalarMul(nonce, view_key))
        randomizers   == HashManyPsd8(<<EncryptionDomain, data_view_key>>, Len(ciphertext))
    IN  [j \in 1..Len(ciphertext) |-> FieldSub(ciphertext[j], randomizers[j])]

\* decrypt refusing to open a Ciphertext that is not tagged Private
decrypt_private_only(self, view_key, nonce) ==
    IF self.variant = "Ciphertext" /\ self.mode = "Private"
    THEN Ok(Plaintext(decode(Unmask(self.payload, view_key, nonce)), self.mode))
    ELSE Ok(self)

\* decrypt tagging what it recovers as Public
decrypt_resets_mode(self, view_key, nonce) ==
    IF self.variant = "Plaintext"
    THEN Ok(self)
    ELSE Ok(Plaintext(decode(Unmask(self.payload, view_key, nonce)), "Public"))

\* Data::decrypt
decrypt(self, view_key, nonce) ==
    IF self.variant = "Plaintext"
    THEN Ok(self)
    ELSE Ok(Plaintext(decode(Unmask(self.payload, view_key, nonce)), self.mode))

\* ------------------------------------------------------------------------
\* State: one data unit owned by a caller, and the record of the last call.
\* ------------------------------------------------------------------------

VARIABLES
    unit,   \* the data unit the caller holds
    op,     \* the operation called last ("new" after construction)
    self,   \* the unit the last operation was called on
    args,   \* the arguments of the last operation
    ret,    \* what the last operation returned
    scan,   \* what the terminus scan of the last decode did
    sent    \* the encryption that came right before, if one did

vars == <<unit, op, self, args, ret, scan, sent>>

NoArgs == <<>>

NoScan == [called |-> FALSE, stream |-> <<>>, found |-> FALSE, kept |-> <<>>]

NoCall == [called |-> FALSE]

\* what one call of decode does with its bit stream
DecodeScan(plaintext) ==
    LET bits == CapacityBits(plaintext)
    IN  [called |-> TRUE,
         stream |-> bits,
         found  |-> ScanTerminus(bits, Len(bits)).found,
         kept   |-> DecodedBits(plaintext)]

PlaintextUnits == {Plaintext(d, m) : d \in SeqsUpTo(Byte, MaxLen), m \in Mode}

CiphertextUnits == {Ciphertext(f, m) : f \in SeqsUpTo(Field, MaxFields), m \in Mode}

InitWith(units) ==
    /\ unit \in units
    /\ op = "new"
    /\ self = unit
    /\ args = NoArgs
    /\ ret = Ok(unit)
    /\ scan = NoScan
    /\ sent = NoCall

\* any unit a caller can construct
Init == InitWith(PlaintextUnits \cup CiphertextUnits)

\* the life cycle of a unit: it is constructed as Plaintext
InitLifecycle == InitWith(PlaintextUnits)

IsValid ==
    /\ op' = "is_valid"
    /\ self' = unit
    /\ args' = NoArgs
    /\ ret' = Ok(is_valid(unit))
    /\ scan' = NoScan
    /\ sent' = NoCall
    /\ UNCHANGED unit

ToDataId ==
    /\ op' = "to_data_id"
    /\ self' = unit
    /\ args' = NoArgs
    /\ ret' = to_data_id(unit)
    /\ scan' = NoScan
    /\ sent' = NoCall
    /\ UNCHANGED unit

Encrypt(address, randomizer) ==
    LET out == encrypt(unit, address, randomizer)
    IN  /\ op' = "encrypt"
        /\ self' = unit
        /\ args' = [address |-> address, randomizer |-> randomizer]
        /\ ret' = out
        /\ scan' = NoScan
        /\ unit' = IF out.ok THEN out.val ELSE unit
        /\ sent' = IF out.ok /\ out.val # unit
                   THEN [called |-> TRUE, self |-> unit, address |-> address,
                         randomizer |-> randomizer, out |-> out.val]
                   ELSE NoCall

Decrypt(view_key, nonce) ==
    LET out == decrypt(unit, view_key, nonce)
    IN  /\ op' = "decrypt"
        /\ self' = unit
        /\ args' = [view_key |-> view_key, nonce |-> nonce]
        /\ ret' = out
        /\ scan' = IF unit.variant = "Ciphertext"
                   THEN DecodeScan(Unmask(unit.payload, view_key, nonce))
                   ELSE NoScan
        /\ unit' = IF out.ok THEN out.val ELSE unit
        /\ sent' = IF op = "encrypt" THEN sent ELSE NoCall

\* encode called on the data of a Plaintext unit
Encode ==
    /\ unit.variant = "Plaintext"
    /\ op' = "encode"
    /\ self' = unit
    /\ args' = NoArgs
    /\ ret' = encode(unit.payload)
    /\ scan' = NoScan
    /\ sent' = NoCall
    /\ UNCHANGED unit

\* decode called on the field elements encode has just returned
Decode ==
    /\ op = "encode"
    /\ ret.ok
    /\ op' = "decode"
    /\ args' = [plaintext |-> ret.val]
    /\ ret' = Ok(decode(ret.val))
    /\ scan' = DecodeScan(ret.val)
    /\ sent' = NoCall
    /\ UNCHANGED <<unit, self>>

Next ==
    \/ IsValid
    \/ ToDataId
    \/ \E address \in Affine, randomizer \in Scalar : Encrypt(address, randomizer)
    \/ \E view_key \in Scalar, nonce \in Affine : Decrypt(view_key, nonce)
    \/ Encode
    \/ Decode

Spec == Init /\ [][Next]_vars

SpecLifecycle == InitLifecycle /\ [][Next]_vars


\* ------------------------------------------------------------------------
\* Properties.
\* ------------------------------------------------------------------------

IsPlaintext(u) == u.variant = "Plaintext"

IsCiphertext(u) == u.variant = "Ciphertext"

IsPrivatePlaintext(u) == IsPlaintext(u) /\ u.mode = "Private"

\* the variant / mode pairs of a valid unit, as a table
ValidPairs ==
    {<<"Plaintext", "Constant">>, <<"Plaintext", "Public">>, <<"Ciphertext", "Private">>}

\* the data with bit i (1-based, little-endian order of to_bits_le) flipped
FlipBit(data, i) == FromBitsLE([ToBitsLE(data) EXCEPT ![i] = ~@])

\* a bit stream without its trailing false bits and without the true bit
\* in front of them
RECURSIVE StripTerminus(_)
StripTerminus(bits) ==
    IF bits = <<>> THEN <<>>
    ELSE IF bits[Len(bits)] THEN SubSeq(bits, 1, Len(bits) - 1)
    ELSE StripTerminus(SubSeq(bits, 1, Len(bits) - 1))

\* C1: encode succeeds on every data value, and decode applied to what
\* encode returned gives back the data value that was encoded.
C1_RoundTrip ==
    /\ op = "encode" => ret.ok
    /\ op = "decode" => ret = Ok(self.payload)

\* a round trip of non-empty data whose bit length is a multiple of the
\* capacity: the terminus bit is alone in the last field element
C1_Witness ==
    /\ op = "decode"
    /\ Len(self.payload) > 0
    /\ Len(ToBitsLE(self.payload)) % Capacity = 0
    /\ Len(args.plaintext) = (Len(ToBitsLE(self.payload)) \div Capacity) + 1
    /\ args.plaintext[Len(args.plaintext)] = 1
    /\ ret.val = self.payload

\* C2: decrypting what encrypt made of Plaintext(x, Private) under
\* address = generator * v and randomizer r, with view key v and nonce
\* generator * r, returns the original unit.
C2_EncryptDecryptInverse ==
    /\ (op = "encrypt" /\ IsPrivatePlaintext(self)) => ret.ok
    /\ ( /\ op = "decrypt"
         /\ sent.called
         /\ IsPrivatePlaintext(sent.self)
         /\ self = sent.out
         /\ sent.address = ScalarMul(Generator, args.view_key)
         /\ args.nonce = ScalarMul(Generator, sent.randomizer) )
       => (ret.ok /\ ret.val = sent.self /\ unit = sent.self)

\* an encryption of data spanning two field elements decrypted with the
\* matching key pair, neither scalar being zero
C2_Witness ==
    /\ op = "decrypt"
    /\ sent.called
    /\ IsPrivatePlaintext(sent.self)
    /\ Len(sent.self.payload) >= Capacity
    /\ self = sent.out
    /\ args.view_key # 0
    /\ sent.randomizer # 0
    /\ sent.address = ScalarMul(Generator, args.view_key)
    /\ args.nonce = ScalarMul(Generator, sent.randomizer)
    /\ unit = sent.self

\* C3: whenever encrypt returns a unit, that unit satisfies is_valid.
C3_EncryptOutputValid ==
    (op = "encrypt" /\ ret.ok) => <<ret.val.variant, ret.val.mode>> \in ValidPairs

\* C4: is_valid is true exactly for Plaintext with Constant, Plaintext with
\* Public and Ciphertext with Private, whatever the payload.
C4_ValidityTable ==
    op = "is_valid" =>
        /\ ret.ok
        /\ ret.val = (<<self.variant, self.mode>> \in ValidPairs)

\* is_valid answered false on a Ciphertext tagged Public that holds fields
C4_Witness ==
    /\ op = "is_valid"
    /\ IsCiphertext(self)
    /\ self.mode = "Public"
    /\ Len(self.payload) > 0
    /\ ret.val = FALSE

\* C5: to_data_id fails exactly when the unit is not valid; on a valid
\* Plaintext it returns the hash of encode(data), on a valid Ciphertext the
\* hash of the stored field sequence.
C5_DataId ==
    op = "to_data_id" =>
        /\ ret.ok <=> (<<self.variant, self.mode>> \in ValidPairs)
        /\ ~ret.ok =>
              ret.val = "Failed to compute the data ID as the data must be encrypted first"
        /\ (ret.ok /\ IsPlaintext(self)) =>
              (encode(self.payload).ok /\ ret.val = HashPsd8(encode(self.payload).val))
        /\ (ret.ok /\ IsCiphertext(self)) => ret.val = HashPsd8(self.payload)

\* to_data_id refused a Plaintext unit tagged Private that holds data
C5_Witness ==
    /\ op = "to_data_id"
    /\ IsPrivatePlaintext(self)
    /\ Len(self.payload) > 0
    /\ ~ret.ok

C7_DecryptKeepsMode ==
    op = "decrypt" =>
        /\ ret.ok
        /\ unit = ret.val
        /\ unit.mode = self.mode
        /\ IsPlaintext(self) => unit = self
        /\ IsCiphertext(self) =>
              unit = Plaintext(decode(Unmask(self.payload, args.view_key, args.nonce)),
                               self.mode)
        /\ (IsCiphertext(self) /\ self.mode = "Private") =>
              <<unit.variant, unit.mode>> \notin ValidPairs

\* a valid Ciphertext that holds fields was decrypted to Plaintext tagged
\* Private
C7_Witness ==
    /\ op = "decrypt"
    /\ IsCiphertext(self)
    /\ self.mode = "Private"
    /\ Len(self.payload) > 0
    /\ IsPrivatePlaintext(unit)
    /\ Len(unit.payload) > 0

\* the ciphertext of the message with bit i flipped, under the address and
\* randomizer of the encryption that has just been made
FlippedCiphertext(i) ==
    encrypt(Plaintext(FlipBit(self.payload, i), "Private"), args.address, args.randomizer)

\* an encryption of a message that spans several field elements
EncryptedSeveralFields ==
    /\ op = "encrypt"
    /\ IsPrivatePlaintext(self)
    /\ ret.ok
    /\ Len(unit.payload) >= 2

\* C8 (as stated): flipping one bit of the message changes every field
\* element of the ciphertext.
C8_DiffusionEveryField ==
    EncryptedSeveralFields =>
        \A i \in 1..Len(ToBitsLE(self.payload)) :
            LET other == FlippedCiphertext(i)
            IN  /\ other.ok
                /\ Len(other.val.payload) = Len(unit.payload)
                /\ \A j \in 1..Len(unit.payload) : other.val.payload[j] # unit.payload[j]

\* C8 (amended): flipping one bit of the message changes exactly the field
\* element that holds the bit, and no other.
C8_DiffusionOneField ==
    EncryptedSeveralFields =>
        \A i \in 1..Len(ToBitsLE(self.payload)) :
            LET other == FlippedCiphertext(i)
            IN  /\ other.ok
                /\ Len(other.val.payload) = Len(unit.payload)
                /\ \A j \in 1..Len(unit.payload) :
                      (other.val.payload[j] # unit.payload[j])
                          <=> (j = ((i - 1) \div Capacity) + 1)

\* an encryption of a message whose bits fill two field elements, the
\* terminus bit taking a third
C8_Witness ==
    /\ EncryptedSeveralFields
    /\ Len(ToBitsLE(self.payload)) = 2 * Capacity
    /\ Len(unit.payload) = 3

\* C9: over the life of a unit constructed as Plaintext the mode never
\* changes, the unit is a Ciphertext only if its mode is Private, only
\* encrypt on a unit tagged Private turns Plaintext into Ciphertext, and
\* only decrypt turns Ciphertext into Plaintext.
C9_Lifecycle ==
    /\ [](IsCiphertext(unit) => unit.mode = "Private")
    /\ [][ /\ unit'.mode = unit.mode
           /\ (IsPlaintext(unit) /\ IsCiphertext(unit')) =>
                 (op' = "encrypt" /\ unit.mode = "Private")
           /\ (IsCiphertext(unit) /\ IsPlaintext(unit')) => op' = "decrypt" ]_vars

\* a unit was encrypted and then decrypted with a key that does not match:
\* it is Plaintext again, with other data, and still tagged Private
C9_Witness ==
    /\ op = "decrypt"
    /\ sent.called
    /\ IsCiphertext(self)
    /\ IsPlaintext(unit)
    /\ unit.mode = "Private"
    /\ unit.payload # sent.self.payload

\* C10: every call of decode meets a true bit before its bit stream is
\* exhausted, and hands to from_bits_le the stream without its trailing
\* false bits and without that one true bit.
C10_TerminusFound ==
    scan.called => (scan.found /\ scan.kept = StripTerminus(scan.stream))

=============================================================================
